---- MODULE Spec2Model ----
(***************************************************************************)
(* ws170120-ctl: one run of the brightness tool (src/main.rs).             *)
(*                                                                         *)
(* The run is a linear sequence of calls into the host (USB enumeration,   *)
(* the /sys/class/hidraw scan, open, write, flush, control transfer).      *)
(* Every such call is one step; its outcome is chosen by the host.         *)
(***************************************************************************)
EXTENDS Integers, Sequences, FiniteSets

VARIABLES
    pc,           \* position of the run
    brightness,   \* Args.brightness
    verbose,      \* Args.verbose
    lookup,       \* what find_hidraw_device returned
    result,       \* what set_brightness returned
    enums,        \* outcome of every find_ws170120_device call, in call order
    ops,          \* every call into the host, in call order
    handles,      \* device handles currently open
    wire,         \* the buffers handed to write / control_out, in order
    writeRes,     \* what file.write returned
    flushRes,     \* what file.flush returned
    usbRes,       \* the completion of device.control_out
    attempts,     \* the transport attempts that returned, with their results
    stdout,       \* lines printed with println!
    stderr,       \* lines printed with eprintln!
    exitCode      \* process exit code, Running while the process lives

vars == <<pc, brightness, verbose, lookup, result, enums, ops, handles, wire,
          writeRes, flushRes, usbRes, attempts, stdout, stderr, exitCode>>

----------------------------------------------------------------------------
(* Program constants *)

WS170120_VENDOR_ID == 3823      \* 0x0eef
WS170120_PRODUCT_ID == 5        \* 0x0005
DATA_LENGTH == 38
BRIGHTNESS_ADDRESS == 6
CONTROL_MAGIC == <<4, 170, 1, 0>>   \* 0x04 0xaa 0x01 0x00
MaxBrightness == 100            \* value_parser range(0..=100)

(* Bounds of the model *)

MaxVerbose == 2      \* -v may be repeated; levels 0, 1 and 2 behave differently
MaxDevices == 2      \* length of the USB device list the host returns
MaxEntries == 2      \* number of entries of /sys/class/hidraw

\* exitCode while the process has not exited
Running == 0 - 1

----------------------------------------------------------------------------
(* Values *)

RECURSIVE SeqsUpTo(_, _)
SeqsUpTo(S, n) ==
    IF n = 0 THEN {<<>>}
    ELSE LET shorter == SeqsUpTo(S, n - 1)
         IN  shorter \cup {Append(s, x) : s \in {t \in shorter : Len(t) = n - 1}, x \in S}

\* An error string: the format string used (tag), the OS error it embeds and
\* the number it embeds.
Msg(tag, os, n) == [tag |-> tag, os |-> os, n |-> n]

NoResult == [kind |-> "none", path |-> 0, msg |-> Msg("", "", 0)]
Ok(path) == [kind |-> "ok", path |-> path, msg |-> Msg("", "", 0)]
Err(m) == [kind |-> "err", path |-> 0, msg |-> m]

\* A line of standard output.
Line(tag, n) == [tag |-> tag, n |-> n]

\* USB devices the host may list: the display, a device of the same vendor
\* and a device with the same product id.
UsbDevices ==
    { [vendor_id |-> WS170120_VENDOR_ID, product_id |-> WS170120_PRODUCT_ID],
      [vendor_id |-> WS170120_VENDOR_ID, product_id |-> 1],
      [vendor_id |-> 1133, product_id |-> WS170120_PRODUCT_ID] }

\* What nusb::list_devices returns: an error or a list of devices.
Listings ==
    {[ok |-> FALSE, devices |-> <<>>]} \cup
    {[ok |-> TRUE, devices |-> d] : d \in SeqsUpTo(UsbDevices, MaxDevices)}

\* An entry of /sys/class/hidraw: reading the entry fails ("ioerr"), its
\* uevent file cannot be resolved or read ("nouevent"), its uevent names
\* another device ("other") or names the display ("ours").
EntryKinds == {"ioerr", "nouevent", "other", "ours"}

\* The state of /sys/class/hidraw: whether it exists, whether read_dir
\* succeeds, and its entries.
SysfsStates ==
    {[exists |-> FALSE, readable |-> FALSE, entries |-> <<>>],
     [exists |-> TRUE, readable |-> FALSE, entries |-> <<>>]} \cup
    {[exists |-> TRUE, readable |-> TRUE, entries |-> e] :
        e \in SeqsUpTo(EntryKinds, MaxEntries)}

\* OS errors an open can fail with, and their text as Rust displays it.
OpenErrors == {"EACCES", "EPERM", "EBUSY", "ENOENT"}

OsText(e) ==
    CASE e = "EACCES" -> <<"Permission", "denied">>
      [] e = "EPERM"  -> <<"Operation", "not", "permitted">>
      [] e = "EBUSY"  -> <<"Device", "or", "resource", "busy">>
      [] e = "ENOENT" -> <<"No", "such", "file", "or", "directory">>
      [] OTHER        -> <<>>

ToLowercaseWord(w) ==
    CASE w = "Permission" -> "permission"
      [] w = "Operation"  -> "operation"
      [] w = "Device"     -> "device"
      [] w = "No"         -> "no"
      [] OTHER            -> w

ToLowercase(text) == [i \in 1..Len(text) |-> ToLowercaseWord(text[i])]

Contains(text, phrase) ==
    \E i \in 0..(Len(text) - Len(phrase)) :
        \A j \in 1..Len(phrase) : text[i + j] = phrase[j]

----------------------------------------------------------------------------
(* Pure parts of the program *)

\* Variant of FirstMatch that compares the vendor id only.
RECURSIVE FirstMatchVendorOnly(_, _)
FirstMatchVendorOnly(devices, i) ==
    IF i > Len(devices) THEN 0
    ELSE IF devices[i].vendor_id = WS170120_VENDOR_ID
         THEN i
         ELSE FirstMatchVendorOnly(devices, i + 1)

\* find_ws170120_device: the first listed device with the display's ids.
RECURSIVE FirstMatch(_, _)
FirstMatch(devices, i) ==
    IF i > Len(devices) THEN 0
    ELSE IF /\ devices[i].vendor_id = WS170120_VENDOR_ID
            /\ devices[i].product_id = WS170120_PRODUCT_ID
         THEN i
         ELSE FirstMatch(devices, i + 1)

find_ws170120_device(listing) ==
    IF ~listing.ok THEN Err(Msg("ListFailed", "EIO", 0))
    ELSE IF FirstMatch(listing.devices, 1) # 0
         THEN Ok(FirstMatch(listing.devices, 1))
         ELSE Err(Msg("NotConnected", "", 0))

\* What an enumeration reported, for the history variable enums.
EnumOutcome(listing) ==
    IF ~listing.ok THEN "listerr"
    ELSE IF \E i \in 1..Len(listing.devices) :
               listing.devices[i] = [vendor_id |-> WS170120_VENDOR_ID,
                                     product_id |-> WS170120_PRODUCT_ID]
         THEN "match"
         ELSE "nomatch"

\* The loop over the entries of /sys/class/hidraw: an entry that cannot be
\* read ends the scan with an error, the first entry naming the display ends
\* it with /dev/<name> (here: the entry's index).
RECURSIVE ScanEntries(_, _)
ScanEntries(entries, i) ==
    IF i > Len(entries) THEN Err(Msg("NoHidraw", "", 0))
    ELSE IF entries[i] = "ioerr" THEN Err(Msg("EntryFailed", "EIO", 0))
    ELSE IF entries[i] = "ours" THEN Ok(i)
    ELSE ScanEntries(entries, i + 1)

find_hidraw_device(listing, sysfs) ==
    IF find_ws170120_device(listing).kind = "err"
    THEN find_ws170120_device(listing)
    ELSE IF ~sysfs.exists THEN Err(Msg("NoHidraw", "", 0))
    ELSE IF ~sysfs.readable THEN Err(Msg("ReadDirFailed", "EACCES", 0))
    ELSE ScanEntries(sysfs.entries, 1)

\* The 38-byte command, as set_brightness_direct_write builds it.
DirectBuffer(b) ==
    LET zero == [i \in 0..(DATA_LENGTH - 1) |-> 0]
        magic == [i \in 0..(DATA_LENGTH - 1) |->
                    IF i < Len(CONTROL_MAGIC) THEN CONTROL_MAGIC[i + 1] ELSE zero[i]]
    IN  [magic EXCEPT ![BRIGHTNESS_ADDRESS] = b]

\* Variant of UsbBuffer that stores the brightness one byte early.
UsbBufferOffByOne(b) ==
    LET zero == [i \in 0..(DATA_LENGTH - 1) |-> 0]
        magic == [i \in 0..(DATA_LENGTH - 1) |->
                    IF i < Len(CONTROL_MAGIC) THEN CONTROL_MAGIC[i + 1] ELSE zero[i]]
    IN  [magic EXCEPT ![BRIGHTNESS_ADDRESS - 1] = b]

\* The 38-byte command, as set_brightness_usb builds it.
UsbBuffer(b) ==
    LET zero == [i \in 0..(DATA_LENGTH - 1) |-> 0]
        magic == [i \in 0..(DATA_LENGTH - 1) |->
                    IF i < Len(CONTROL_MAGIC) THEN CONTROL_MAGIC[i + 1] ELSE zero[i]]
    IN  [magic EXCEPT ![BRIGHTNESS_ADDRESS] = b]

\* The error an open failure of the device node is mapped to.
DirectOpenError(e) ==
    LET err_str == ToLowercase(OsText(e))
    IN  IF \/ Contains(err_str, <<"permission", "denied">>)
           \/ Contains(err_str, <<"access", "denied">>)
        THEN Msg("AccessDenied", e, 0)
        ELSE Msg("OpenFailed", e, 0)

\* Variant of DirectLengthOk that accepts any non-empty write.
DirectLengthOkNonZero(bytes_written) == bytes_written > 0

\* The check of the count file.write returned.
DirectLengthOk(bytes_written) == bytes_written = DATA_LENGTH

\* The check of the count the control transfer reported.
UsbLengthOk(actual_length) == actual_length = DATA_LENGTH

\* Variant of UsbResult with the length check inverted.
UsbResultInverted(status, actual_length) ==
    IF status = "ok"
    THEN IF UsbLengthOk(actual_length)
         THEN Err(Msg("ShortWrite", "", actual_length))
         ELSE Ok(0)
    ELSE Err(Msg("ControlFailed", "EPIPE", 0))

\* What set_brightness_usb returns for a completed control transfer.
UsbResult(status, actual_length) ==
    IF status = "ok"
    THEN IF ~UsbLengthOk(actual_length)
         THEN Err(Msg("ShortWrite", "", actual_length))
         ELSE Ok(0)
    ELSE Err(Msg("ControlFailed", "EPIPE", 0))

\* Variant of DirectWriteResult without the check of the count.
DirectWriteResultUnchecked(w) ==
    IF w.kind = "err" THEN Err(Msg("WriteFailed", "EIO", 0)) ELSE NoResult

\* What set_brightness_direct_write does with the outcome of file.write:
\* an error to return, or NoResult to go on to the flush.
DirectWriteResult(w) ==
    IF w.kind = "err" THEN Err(Msg("WriteFailed", "EIO", 0))
    ELSE IF ~DirectLengthOk(w.n) THEN Err(Msg("ShortWrite", "", w.n))
    ELSE NoResult

\* What set_brightness_direct_write returns after file.flush.
DirectFlushResult(f) ==
    IF f = "err" THEN Err(Msg("FlushFailed", "EIO", 0)) ELSE Ok(0)

\* Variant of HidrawArm that propagates the error of find_hidraw_device.
HidrawArmPropagates(r) == IF r.kind = "ok" THEN "DirectOpen" ELSE "Returned"

\* The match on find_hidraw_device's result in set_brightness: where the
\* run goes next.
HidrawArm(r) == IF r.kind = "ok" THEN "DirectOpen" ELSE "Fallback"

\* The lines that match prints.
HidrawArmLines(r, v) ==
    IF v > 1
    THEN IF r.kind = "ok" THEN <<Line("FoundHidraw", r.path)>>
         ELSE <<Line("NoHidraw", 0), Line("FallingBack", 0)>>
    ELSE <<>>

\* Variant of MainStderr that prints a fixed line instead of the error.
MainStderrGeneric(r) ==
    IF r.kind = "err" THEN <<Msg("Failed", "", 0)>> ELSE <<>>

\* Variant of MainExitCode without process::exit(1).
MainExitCodeAlwaysZero(r) == 0

\* What main writes to the error stream and the exit code it ends with.
MainStderr(r) == IF r.kind = "err" THEN <<r.msg>> ELSE <<>>

MainExitCode(r) == IF r.kind = "err" THEN 1 ELSE 0

\* Outcomes the host may give.
TransferLengths == 0..DATA_LENGTH

WriteOutcomes ==
    {[kind |-> "err", n |-> 0]} \cup {[kind |-> "ok", n |-> n] : n \in TransferLengths}

ControlOutcomes ==
    {[status |-> s, actual_length |-> n] : s \in {"ok", "err"}, n \in TransferLengths}

\* Variant of SuccessLines that prints whatever the verbosity.
SuccessLinesAlways(v, b) == <<Line("BrightnessSet", b)>>

\* The println! of the success message.
SuccessLines(v, b) == IF v > 0 THEN <<Line("BrightnessSet", b)>> ELSE <<>>

----------------------------------------------------------------------------
(* The run *)

Init ==
    /\ pc = "Start"
    /\ brightness \in 0..MaxBrightness
    /\ verbose \in 0..MaxVerbose
    /\ lookup = NoResult
    /\ result = NoResult
    /\ enums = <<>>
    /\ ops = <<>>
    /\ handles = {}
    /\ wire = <<>>
    /\ writeRes = [kind |-> "none", n |-> 0]
    /\ flushRes = "none"
    /\ usbRes = [status |-> "none", actual_length |-> 0]
    /\ attempts = <<>>
    /\ stdout = <<>>
    /\ stderr = <<>>
    /\ exitCode = Running

\* set_brightness, up to the call of find_hidraw_device.
Begin ==
    /\ pc = "Start"
    /\ stdout' = IF verbose > 0 THEN Append(stdout, Line("Attempting", brightness))
                 ELSE stdout
    /\ pc' = "FindHidraw"
    /\ UNCHANGED <<brightness, verbose, lookup, result, enums, ops, handles, wire,
                   writeRes, flushRes, usbRes, attempts, stderr, exitCode>>

\* find_hidraw_device and the match on its result.
HidrawLookup ==
    /\ pc = "FindHidraw"
    /\ \E listing \in Listings, sysfs \in SysfsStates :
         LET r == find_hidraw_device(listing, sysfs)
         IN  /\ lookup' = r
             /\ enums' = Append(enums, EnumOutcome(listing))
             /\ ops' = ops \o <<"list_devices">> \o
                         (IF EnumOutcome(listing) = "match" THEN <<"scan_sysfs">> ELSE <<>>)
             /\ stdout' = stdout \o HidrawArmLines(r, verbose)
             /\ pc' = HidrawArm(r)
    /\ UNCHANGED <<brightness, verbose, result, handles, wire, writeRes, flushRes,
                   usbRes, attempts, stderr, exitCode>>

\* Variant of DirectOpen for a set_brightness that goes on to the USB path
\* when the raw node cannot be opened.
DirectOpenFallsBack ==
    /\ pc = "DirectOpen"
    /\ ops' = Append(ops, "open_node")
    /\ \E o \in {"ok"} \cup OpenErrors :
         IF o = "ok"
         THEN /\ handles' = handles \cup {"file"}
              /\ pc' = "DirectWrite"
              /\ UNCHANGED <<result, attempts>>
         ELSE /\ attempts' = Append(attempts,
                                [transport |-> "raw", result |-> Err(DirectOpenError(o))])
              /\ pc' = "Fallback"
              /\ UNCHANGED <<result, handles>>
    /\ UNCHANGED <<brightness, verbose, lookup, enums, wire, writeRes, flushRes,
                   usbRes, stdout, stderr, exitCode>>

\* set_brightness_direct_write: OpenOptions::open of the device node.
DirectOpen ==
    /\ pc = "DirectOpen"
    /\ ops' = Append(ops, "open_node")
    /\ \E o \in {"ok"} \cup OpenErrors :
         IF o = "ok"
         THEN /\ handles' = handles \cup {"file"}
              /\ pc' = "DirectWrite"
              /\ UNCHANGED <<result, attempts>>
         ELSE /\ result' = Err(DirectOpenError(o))
              /\ attempts' = Append(attempts,
                                [transport |-> "raw", result |-> Err(DirectOpenError(o))])
              /\ pc' = "Returned"
              /\ UNCHANGED handles
    /\ UNCHANGED <<brightness, verbose, lookup, enums, wire, writeRes, flushRes,
                   usbRes, stdout, stderr, exitCode>>

\* Variant of DirectWrite that keeps the file open when it returns an error.
DirectWriteLeaks ==
    /\ pc = "DirectWrite"
    /\ ops' = Append(ops, "write")
    /\ wire' = Append(wire, DirectBuffer(brightness))
    /\ \E w \in WriteOutcomes :
         /\ writeRes' = w
         /\ IF DirectWriteResult(w).kind = "err"
            THEN /\ result' = DirectWriteResult(w)
                 /\ attempts' = Append(attempts,
                                   [transport |-> "raw", result |-> DirectWriteResult(w)])
                 /\ pc' = "Returned"
                 /\ UNCHANGED handles
            ELSE /\ pc' = "DirectFlush"
                 /\ UNCHANGED <<result, attempts, handles>>
    /\ UNCHANGED <<brightness, verbose, lookup, enums, flushRes, usbRes, stdout,
                   stderr, exitCode>>

\* set_brightness_direct_write: file.write and the check of its count.
DirectWrite ==
    /\ pc = "DirectWrite"
    /\ ops' = Append(ops, "write")
    /\ wire' = Append(wire, DirectBuffer(brightness))
    /\ \E w \in WriteOutcomes :
         /\ writeRes' = w
         /\ IF DirectWriteResult(w).kind = "err"
            THEN /\ result' = DirectWriteResult(w)
                 /\ attempts' = Append(attempts,
                                   [transport |-> "raw", result |-> DirectWriteResult(w)])
                 /\ handles' = handles \ {"file"}
                 /\ pc' = "Returned"
            ELSE /\ pc' = "DirectFlush"
                 /\ UNCHANGED <<result, attempts, handles>>
    /\ UNCHANGED <<brightness, verbose, lookup, enums, flushRes, usbRes, stdout,
                   stderr, exitCode>>

\* Variant of DirectFlush for a set_brightness that does not return the
\* result of set_brightness_direct_write but falls through to the USB path.
DirectFlushFallsThrough ==
    /\ pc = "DirectFlush"
    /\ ops' = Append(ops, "flush")
    /\ \E f \in {"ok", "err"} :
         /\ flushRes' = f
         /\ attempts' = Append(attempts,
                           [transport |-> "raw", result |-> DirectFlushResult(f)])
         /\ stdout' = IF DirectFlushResult(f).kind = "ok"
                      THEN stdout \o SuccessLines(verbose, brightness)
                      ELSE stdout
    /\ handles' = handles \ {"file"}
    /\ pc' = "Fallback"
    /\ UNCHANGED <<brightness, verbose, lookup, result, enums, wire, writeRes,
                   usbRes, stderr, exitCode>>

\* set_brightness_direct_write: file.flush, the success message, the return.
DirectFlush ==
    /\ pc = "DirectFlush"
    /\ ops' = Append(ops, "flush")
    /\ \E f \in {"ok", "err"} :
         /\ flushRes' = f
         /\ result' = DirectFlushResult(f)
         /\ attempts' = Append(attempts,
                           [transport |-> "raw", result |-> DirectFlushResult(f)])
         /\ stdout' = IF DirectFlushResult(f).kind = "ok"
                      THEN stdout \o SuccessLines(verbose, brightness)
                      ELSE stdout
    /\ handles' = handles \ {"file"}
    /\ pc' = "Returned"
    /\ UNCHANGED <<brightness, verbose, lookup, enums, wire, writeRes, usbRes,
                   stderr, exitCode>>

\* Variant of FallbackEnumerate that drops the error of the enumeration and
\* returns success.
FallbackEnumerateSwallows ==
    /\ pc = "Fallback"
    /\ ops' = Append(ops, "list_devices")
    /\ \E listing \in Listings :
         /\ enums' = Append(enums, EnumOutcome(listing))
         /\ IF find_ws170120_device(listing).kind = "err"
            THEN /\ result' = Ok(0)
                 /\ pc' = "Returned"
            ELSE /\ pc' = "UsbOpen"
                 /\ UNCHANGED result
    /\ UNCHANGED <<brightness, verbose, lookup, handles, wire, writeRes, flushRes,
                   usbRes, attempts, stdout, stderr, exitCode>>

\* set_brightness: the second find_ws170120_device, on the fallback path.
FallbackEnumerate ==
    /\ pc = "Fallback"
    /\ ops' = Append(ops, "list_devices")
    /\ \E listing \in Listings :
         /\ enums' = Append(enums, EnumOutcome(listing))
         /\ IF find_ws170120_device(listing).kind = "err"
            THEN /\ result' = find_ws170120_device(listing)
                 /\ pc' = "Returned"
            ELSE /\ pc' = "UsbOpen"
                 /\ UNCHANGED result
    /\ UNCHANGED <<brightness, verbose, lookup, handles, wire, writeRes, flushRes,
                   usbRes, attempts, stdout, stderr, exitCode>>

\* set_brightness_usb: device_info.open.
UsbOpen ==
    /\ pc = "UsbOpen"
    /\ ops' = Append(ops, "usb_open")
    /\ \E o \in {"ok"} \cup OpenErrors :
         IF o = "ok"
         THEN /\ handles' = handles \cup {"usb"}
              /\ pc' = "UsbControlOut"
              /\ UNCHANGED <<result, attempts>>
         ELSE /\ result' = Err(Msg("UsbOpenFailed", o, 0))
              /\ attempts' = Append(attempts,
                                [transport |-> "usb",
                                 result |-> Err(Msg("UsbOpenFailed", o, 0))])
              /\ pc' = "Returned"
              /\ UNCHANGED handles
    /\ UNCHANGED <<brightness, verbose, lookup, enums, wire, writeRes, flushRes,
                   usbRes, stdout, stderr, exitCode>>

\* Variant of UsbControlOut that issues the transfer a second time when
\* the first one completed with an error.
UsbControlOutRetries ==
    /\ pc = "UsbControlOut"
    /\ ops' = Append(ops, "control_out")
    /\ wire' = Append(wire, UsbBuffer(brightness))
    /\ \E c \in ControlOutcomes :
         /\ usbRes' = c
         /\ IF c.status = "err" /\ usbRes.status = "none"
            THEN /\ pc' = "UsbControlOut"
                 /\ UNCHANGED <<result, attempts, stdout, handles>>
            ELSE /\ result' = UsbResult(c.status, c.actual_length)
                 /\ attempts' = Append(attempts,
                                   [transport |-> "usb",
                                    result |-> UsbResult(c.status, c.actual_length)])
                 /\ stdout' = IF UsbResult(c.status, c.actual_length).kind = "ok"
                              THEN stdout \o SuccessLines(verbose, brightness)
                              ELSE stdout
                 /\ handles' = handles \ {"usb"}
                 /\ pc' = "Returned"
    /\ UNCHANGED <<brightness, verbose, lookup, enums, writeRes, flushRes, stderr,
                   exitCode>>

\* set_brightness_usb: the control transfer, the match on its completion.
UsbControlOut ==
    /\ pc = "UsbControlOut"
    /\ ops' = Append(ops, "control_out")
    /\ wire' = Append(wire, UsbBuffer(brightness))
    /\ \E c \in ControlOutcomes :
         /\ usbRes' = c
         /\ result' = UsbResult(c.status, c.actual_length)
         /\ attempts' = Append(attempts,
                           [transport |-> "usb",
                            result |-> UsbResult(c.status, c.actual_length)])
         /\ stdout' = IF UsbResult(c.status, c.actual_length).kind = "ok"
                      THEN stdout \o SuccessLines(verbose, brightness)
                      ELSE stdout
    /\ handles' = handles \ {"usb"}
    /\ pc' = "Returned"
    /\ UNCHANGED <<brightness, verbose, lookup, enums, writeRes, flushRes, stderr,
                   exitCode>>

\* main: the error line and the exit code.
MainExit ==
    /\ pc = "Returned"
    /\ stderr' = stderr \o MainStderr(result)
    /\ exitCode' = MainExitCode(result)
    /\ pc' = "Exited"
    /\ UNCHANGED <<brightness, verbose, lookup, result, enums, ops, handles, wire,
                   writeRes, flushRes, usbRes, attempts, stdout>>

Next ==
    \/ Begin
    \/ HidrawLookup
    \/ DirectOpen
    \/ DirectWrite
    \/ DirectFlush
    \/ FallbackEnumerate
    \/ UsbOpen
    \/ UsbControlOut
    \/ MainExit

Spec == Init /\ [][Next]_vars

\* The run under the assumption that every call into the host returns: a
\* step that can be taken is eventually taken.  The brightness has no
\* influence on the control flow, the two ends of its range are kept.
FairInit == Init /\ brightness \in {0, MaxBrightness}

FairSpec == FairInit /\ [][Next]_vars /\ WF_vars(Next)

----------------------------------------------------------------------------
(* Vocabulary of the properties *)

Exited == pc = "Exited"

InOps(o) == \E i \in 1..Len(ops) : ops[i] = o

CountOps(o) == Cardinality({i \in 1..Len(ops) : ops[i] = o})

\* Calls that touch a transport, on the raw node and on USB.
RawOps == {"open_node", "write", "flush"}
UsbOps == {"usb_open", "control_out"}

NoRawOp == \A i \in 1..Len(ops) : ops[i] \notin RawOps
NoUsbOp == \A i \in 1..Len(ops) : ops[i] \notin UsbOps
NoTransportOp == NoRawOp /\ NoUsbOp

\* A transport reported the whole command transferred, without error.
RawTransferred == writeRes.kind = "ok" /\ writeRes.n = 38
UsbTransferred == usbRes.status = "ok" /\ usbRes.actual_length = 38

SuccessPrinted == \E i \in 1..Len(stdout) : stdout[i].tag = "BrightnessSet"

RawAttemptFailed ==
    \E i \in 1..Len(attempts) :
        attempts[i].transport = "raw" /\ attempts[i].result.kind = "err"

AttemptCauses == [i \in 1..Len(attempts) |-> attempts[i].result.msg]

----------------------------------------------------------------------------
(* C1 .. C10 *)

\* C1: when the write attempt on the raw node has failed, the run goes on to
\* the USB path (a second enumeration or a USB call follows) before it ends.
C1_RawFailureFallsBackToUsb ==
    (Exited /\ RawAttemptFailed) => (CountOps("list_devices") >= 2 \/ ~NoUsbOp)

C3_NoDeviceNoTransport ==
    (Len(enums) >= 1 /\ \A i \in 1..Len(enums) : enums[i] = "nomatch") =>
        /\ NoTransportOp
        /\ handles = {}
        /\ Exited => /\ exitCode = 1
                     /\ stderr = <<Msg("NotConnected", "", 0)>>

C3_Witness ==
    Exited /\ enums = <<"nomatch", "nomatch">> /\ exitCode = 1 /\ NoTransportOp

C5_ShortWriteIsFailure ==
    /\ (writeRes.kind = "ok" /\ writeRes.n # 38) =>
          /\ result = Err(Msg("ShortWrite", "", writeRes.n))
          /\ ~SuccessPrinted
          /\ ~InOps("flush")
          /\ Exited => exitCode = 1
    /\ (usbRes.status = "ok" /\ usbRes.actual_length # 38) =>
          /\ result = Err(Msg("ShortWrite", "", usbRes.actual_length))
          /\ ~SuccessPrinted
          /\ Exited => exitCode = 1
    /\ \A i \in 1..Len(attempts) :
          attempts[i].result.kind = "ok" => (RawTransferred \/ UsbTransferred)
    /\ SuccessPrinted => (RawTransferred \/ UsbTransferred)

C5_Witness ==
    Exited /\ writeRes = [kind |-> "ok", n |-> 10] /\ exitCode = 1

\* C6: when the raw-node lookup failed and the control transfer completed
\* without error with 38 bytes, the run exits with code 0, the USB attempt
\* being the one that succeeded.
C6_UsbPathSucceeds ==
    (Exited /\ lookup.kind = "err" /\ UsbTransferred) =>
        /\ exitCode = 0
        /\ result = Ok(0)
        /\ attempts = <<[transport |-> "usb", result |-> Ok(0)]>>
        /\ NoRawOp

C6_Witness ==
    /\ Exited
    /\ lookup = Err(Msg("NoHidraw", "", 0))
    /\ enums = <<"match", "match">>
    /\ UsbTransferred
    /\ exitCode = 0

\* The wire layout of the command for brightness b.
IsCommand(buf, b) ==
    /\ DOMAIN buf = 0..37
    /\ buf[0] = 4 /\ buf[1] = 170 /\ buf[2] = 1 /\ buf[3] = 0
    /\ buf[6] = b
    /\ \A i \in (0..37) \ {0, 1, 2, 3, 6} : buf[i] = 0

\* C7: every buffer handed to a transport has the 38-byte layout for the
\* run's brightness, and the raw path and the USB path build the same buffer.
C7_CommandBufferLayout ==
    /\ \A i \in 1..Len(wire) : IsCommand(wire[i], brightness)
    /\ IsCommand(DirectBuffer(brightness), brightness)
    /\ DirectBuffer(brightness) = UsbBuffer(brightness)

C7_Witness ==
    /\ brightness = 100
    /\ InOps("control_out")
    /\ Len(wire) = 1
    /\ wire[1][6] = 100

C9_ExitContract ==
    /\ ~Exited => (exitCode = Running /\ stderr = <<>>)
    /\ Exited =>
          /\ exitCode \in {0, 1}
          /\ exitCode = 0 <=> result.kind = "ok"
          /\ exitCode = 1 <=> result.kind = "err"
          /\ exitCode = 1 => stderr = <<result.msg>>
          /\ exitCode = 0 => stderr = <<>>

C9_Witness ==
    Exited /\ exitCode = 1 /\ Len(stderr) = 1 /\ result.kind = "err"

\* C10: once the first enumeration of a run has not found the device, the
\* run makes no further enumeration and no transport call.
C10_LocatorFailureTerminal ==
    (Len(enums) >= 1 /\ enums[1] # "match") =>
        (Len(enums) = 1 /\ NoTransportOp)

----------------------------------------------------------------------------
(* C11 .. C18 *)

\* OS errors that are a permission or an exclusivity failure.
PermissionOrExclusivity == {"EACCES", "EPERM", "EBUSY"}

\* The error an attempt ended with is the error of a failed open.
IsOpenFailure(m) == m.tag \in {"AccessDenied", "OpenFailed", "UsbOpenFailed"}

\* C11: when the open of the raw node or of the USB device failed for a
\* permission or exclusivity reason, the diagnostic of the run is the
\* access-denied one, the one that suggests elevated privileges.
C11_OpenDeniedIsAccessDenied ==
    \A i \in 1..Len(attempts) :
        (/\ Exited
         /\ IsOpenFailure(attempts[i].result.msg)
         /\ attempts[i].result.msg.os \in PermissionOrExclusivity) =>
            stderr = <<Msg("AccessDenied", attempts[i].result.msg.os, 0)>>

\* The handles that may be open at a position of the run.
HandlesAt(p) ==
    CASE p \in {"DirectWrite", "DirectFlush"} -> {"file"}
      [] p = "UsbControlOut"                  -> {"usb"}
      [] OTHER                                -> {}

\* C12: at most one handle is open at any time, a handle is open only
\* between its open and the return of the attempt that opened it, and none
\* is open when the other transport is entered, when set_brightness has
\* returned or when the process has exited.
C12_HandleReleasedOnEveryPath ==
    /\ Cardinality(handles) <= 1
    /\ handles = HandlesAt(pc)
    /\ pc \in {"Fallback", "UsbOpen", "DirectOpen", "Returned", "Exited"} => handles = {}
    /\ Len(attempts) > 0 => handles = {}

C12_Witness ==
    /\ Exited
    /\ InOps("open_node")
    /\ writeRes.kind = "err"
    /\ handles = {}

\* C13: in a run the raw node is opened and written at most once and the
\* USB device is opened and sent the control transfer at most once.
C13_EachTransportAtMostOnce ==
    /\ CountOps("open_node") <= 1
    /\ CountOps("write") <= 1
    /\ CountOps("flush") <= 1
    /\ CountOps("usb_open") <= 1
    /\ CountOps("control_out") <= 1
    /\ Len(wire) <= 1

C13_Witness ==
    /\ Exited
    /\ usbRes.status = "err"
    /\ CountOps("control_out") = 1
    /\ exitCode = 1


\* The terminal states of the run.
Success ==
    /\ exitCode = 0
    /\ Len(attempts) > 0
    /\ attempts[Len(attempts)].result.kind = "ok"

ExhaustedFailure ==
    /\ exitCode = 1
    /\ Len(attempts) > 0
    /\ \A i \in 1..Len(attempts) : attempts[i].result.kind = "err"

NotFoundFailure ==
    /\ exitCode = 1
    /\ attempts = <<>>
    /\ NoTransportOp
    /\ enums[Len(enums)] # "match"

ExactlyOneTerminal ==
    Cardinality({t \in {"Success", "ExhaustedFailure", "NotFoundFailure"} :
                    \/ t = "Success" /\ Success
                    \/ t = "ExhaustedFailure" /\ ExhaustedFailure
                    \/ t = "NotFoundFailure" /\ NotFoundFailure}) = 1

\* C14: provided every call into the host returns, the run reaches the exit,
\* the state it exits in is exactly one of Success, ExhaustedFailure and
\* NotFoundFailure, and no step is taken after the exit.
C14_RunTerminates ==
    /\ <>Exited
    /\ [](Exited => ExactlyOneTerminal)
    /\ [][~Exited]_vars

C14_Witness ==
    Exited /\ NotFoundFailure /\ enums = <<"match", "listerr">>


\* The calls made on the raw node, in call order.
RawOpsLog == SelectSeq(ops, LAMBDA o : o \in RawOps)

IsPrefix(a, b) == Len(a) <= Len(b) /\ \A i \in 1..Len(a) : a[i] = b[i]

RawAttemptReturned ==
    \E i \in 1..Len(attempts) : attempts[i].transport = "raw"

\* C15 as stated: the raw node is opened, written and flushed in that order,
\* and the flush comes before the check of the count: a write that returned
\* without error, short or not, has been followed by the flush when the
\* attempt returns.
C15_FlushBeforeVerify ==
    /\ IsPrefix(RawOpsLog, <<"open_node", "write", "flush">>)
    /\ (RawAttemptReturned /\ writeRes.kind = "ok") => InOps("flush")

\* C15 as amended: the order is open, write, check of the count, flush,
\* release: the flush is made only after the write returned exactly 38, a
\* short write returns its error without a flush, and the file is released
\* when the attempt returns.
C15_VerifyBeforeFlush ==
    /\ IsPrefix(RawOpsLog, <<"open_node", "write", "flush">>)
    /\ (pc = "DirectFlush" \/ InOps("flush")) => RawTransferred
    /\ (RawAttemptReturned /\ RawTransferred) => InOps("flush")
    /\ (writeRes.kind = "ok" /\ writeRes.n # 38) =>
          /\ ~InOps("flush")
          /\ RawAttemptReturned
          /\ result = Err(Msg("ShortWrite", "", writeRes.n))
    /\ RawAttemptReturned => handles = {}

C15_Witness ==
    /\ Exited
    /\ writeRes = [kind |-> "ok", n |-> 37]
    /\ RawOpsLog = <<"open_node", "write">>
    /\ handles = {}

SuccessCount == Cardinality({i \in 1..Len(stdout) : stdout[i].tag = "BrightnessSet"})

\* C16: the success message is printed at most once, with the run's
\* brightness, only with verbosity above 0, only after the raw write
\* returned 38 and the flush succeeded or after the control transfer
\* completed with 38, and not in a run that exits with code 1.
C16_SuccessMessage ==
    /\ SuccessCount <= 1
    /\ \A i \in 1..Len(stdout) :
          stdout[i].tag = "BrightnessSet" => stdout[i].n = brightness
    /\ SuccessPrinted =>
          /\ verbose > 0
          /\ (RawTransferred /\ flushRes = "ok") \/ UsbTransferred
          /\ result.kind = "ok"
    /\ (Exited /\ exitCode = 1) => ~SuccessPrinted

C16_Witness ==
    /\ Exited
    /\ verbose = 1
    /\ SuccessCount = 1
    /\ RawTransferred
    /\ flushRes = "ok"
    /\ exitCode = 0

\* The error strings the last call of a failed run can have produced.
LastStepErrors ==
    LET last == ops[Len(ops)]
    IN  CASE last = "list_devices" ->
               IF enums[Len(enums)] = "listerr"
               THEN {Msg("ListFailed", "EIO", 0)}
               ELSE {Msg("NotConnected", "", 0)}
          [] last = "open_node" ->
               {Msg(t, e, 0) : t \in {"AccessDenied", "OpenFailed"}, e \in OpenErrors}
          [] last = "write" ->
               IF writeRes.kind = "err"
               THEN {Msg("WriteFailed", "EIO", 0)}
               ELSE {Msg("ShortWrite", "", writeRes.n)}
          [] last = "flush" -> {Msg("FlushFailed", "EIO", 0)}
          [] last = "usb_open" -> {Msg("UsbOpenFailed", e, 0) : e \in OpenErrors}
          [] last = "control_out" ->
               IF usbRes.status = "err"
               THEN {Msg("ControlFailed", "EPIPE", 0)}
               ELSE {Msg("ShortWrite", "", usbRes.actual_length)}
          [] OTHER -> {}

\* C17: a USB call is made only when the raw-node lookup returned an error
\* and no call on the raw node was made, a call on the raw node only when
\* the lookup returned a path; at most one write or transfer is issued, and
\* the diagnostic of a failed run is the one error of its last call.
C17_TransportsMutuallyExclusive ==
    /\ ~NoUsbOp => (lookup.kind = "err" /\ NoRawOp)
    /\ ~NoRawOp => (lookup.kind = "ok" /\ NoUsbOp /\ Len(enums) = 1)
    /\ CountOps("write") + CountOps("control_out") <= 1
    /\ Len(attempts) <= 1
    /\ (Exited /\ exitCode = 1) =>
          /\ Len(stderr) = 1
          /\ stderr[1] \in LastStepErrors

C17_Witness ==
    /\ Exited
    /\ lookup.kind = "err"
    /\ usbRes = [status |-> "ok", actual_length |-> 10]
    /\ NoRawOp
    /\ stderr = <<Msg("ShortWrite", "", 10)>>

\* The run is past the fallback enumeration.
PastFallback == pc \in {"UsbOpen", "UsbControlOut", "Returned", "Exited"}

LookupOnlyTags == {"NoHidraw", "ReadDirFailed", "EntryFailed"}

\* What C18_LookupErrorText and C18_LookupSpecificText share: an error of the
\* raw-node lookup, whatever its cause, is followed by a second enumeration
\* before the run returns, and the USB device is opened exactly when that
\* enumeration matched.
LookupFailureGoesOn ==
    lookup.kind = "err" =>
        /\ pc = "Fallback" \/ PastFallback
        /\ pc = "Fallback" => (Len(enums) = 1 /\ NoTransportOp)
        /\ PastFallback => Len(enums) = 2
        /\ (PastFallback /\ pc # "UsbOpen") =>
              (InOps("usb_open") <=> enums[2] = "match")
        /\ pc = "UsbOpen" => enums[2] = "match"
        /\ InOps("control_out") => InOps("usb_open")

\* C18 as stated: every failure of the raw-node lookup is followed by a
\* second enumeration, the USB transfer is attempted iff it matches, and the
\* text of the lookup's error is never on the error stream.
C18_LookupErrorText ==
    /\ LookupFailureGoesOn
    /\ lookup.kind = "err" => \A j \in 1..Len(stderr) : stderr[j] # lookup.msg

\* C18 as amended: every failure of the raw-node lookup is followed by a
\* second enumeration, the USB transfer is attempted iff it matches, and the
\* error stream holds the error of that second enumeration or of the USB
\* attempt: the texts only the lookup produces never appear, and an
\* enumeration error appears only as the error of the second enumeration.
C18_LookupSpecificText ==
    /\ LookupFailureGoesOn
    /\ \A j \in 1..Len(stderr) : stderr[j].tag \notin LookupOnlyTags
    /\ (lookup.kind = "err" /\ Exited) =>
          /\ enums[2] = "nomatch" <=> stderr = <<Msg("NotConnected", "", 0)>>
          /\ enums[2] = "listerr" <=> stderr = <<Msg("ListFailed", "EIO", 0)>>
          /\ (enums[2] = "match" /\ exitCode = 1) =>
                stderr = <<attempts[1].result.msg>> /\ attempts[1].transport = "usb"

C18_Witness ==
    /\ Exited
    /\ lookup = Err(Msg("NotConnected", "", 0))
    /\ enums = <<"nomatch", "nomatch">>
    /\ stderr = <<lookup.msg>>

====
